---- MODULE Spec2Model ----
(***************************************************************************)
(* A model of BiMultiMap (src/src/map.rs): a bidirectional multimap whose  *)
(* buckets form a two-dimensional array of hash sets.  The pair (k, v) is  *)
(* kept in buckets[hash(k) % rows][hash(v) % cols].                        *)
(*                                                                         *)
(* K and V are both the integer type of the documentation tests of         *)
(* key_iter and val_iter, so one builder hashes keys and values alike.     *)
(* The builder is a seeded hash: with the bounds below the seeds cover     *)
(* every function from the elements to the digests.  The digest is a u64   *)
(* and the build is one whose usize is as wide as a u64.                   *)
(***************************************************************************)
EXTENDS Integers, Sequences, FiniteSets

\* Elements of K and V are 1..MaxId.
MaxId == 2
\* with_hasher and new are called with keys, vals in 0..MaxDim.
MaxDim == 2
\* Digests are 0..MaxDigest.
MaxDigest == 1
\* insert is called while the map holds fewer than MaxSize relations, or
\* with a relation it already holds.
MaxSize == 2

Ids == 1..MaxId
Relation == Ids \X Ids
Dims == 0..MaxDim
Digests == 0..MaxDigest
\* The values of S: BuildHasher the container is built with.
Builders == [mult : Digests, add : Digests]

VARIABLES
    live,      \* TRUE once a BiMultiMap has been returned by new / with_hasher
    shape,     \* self.buckets.shape(): <<rows, cols>>
    buckets,   \* self.buckets: [rows x cols -> set of (K, V)]
    builder,   \* self.builder
    present,   \* history: the relations inserted and not removed since
    last,      \* history: the last call, its outcome and the grid before it
    prev       \* history: the call before last, kept when it was an insert
               \* with the arguments of last (NoCall otherwise)

vars == <<live, shape, buckets, builder, present, last, prev>>

\* `as usize` of a u64 digest: reduction to the width of usize.
AsUsize(h) == h % (MaxDigest + 1)

\* fn hash(&self, val) -> u64
hash(b, val) == (b.mult * val + b.add) % (MaxDigest + 1)

\* Array2::default([keys, vals]): keys x vals empty hash sets.
ArrayDefault(keys, vals) == [i \in (0..(keys - 1)) \X (0..(vals - 1)) |-> {}]

NoCall ==
    [op |-> "none", args |-> <<>>, ind |-> <<>>, outcome |-> "ok",
     ret |-> FALSE, yielded |-> <<>>,
     before |-> [shape |-> <<0, 0>>, buckets |-> <<>>, present |-> {}]]

Call(op, args, ind, outcome, ret, yielded) ==
    [op |-> op, args |-> args, ind |-> ind, outcome |-> outcome,
     ret |-> ret, yielded |-> yielded,
     before |-> [shape |-> shape, buckets |-> buckets, present |-> present]]

\* The history of a call.
Record(call) ==
    /\ last' = call
    /\ prev' = IF last.op = "insert" /\ last.args = call.args THEN last ELSE NoCall

Init ==
    /\ live = FALSE
    /\ shape = <<0, 0>>
    /\ buckets = ArrayDefault(0, 0)
    /\ builder = [mult |-> 0, add |-> 0]
    /\ present = {}
    /\ last = NoCall
    /\ prev = NoCall

\* pub fn with_hasher(keys, vals, builder) -> BiMultiMap<K, V, S>
with_hasher(keys, vals, b) ==
    /\ ~live
    /\ live' = TRUE
    /\ shape' = <<keys, vals>>
    /\ buckets' = ArrayDefault(keys, vals)
    /\ builder' = b
    /\ present' = {}
    /\ Record(Call("with_hasher", <<keys, vals>>, <<>>, "ok", FALSE, <<>>))

\* pub fn new(keys, vals): with_hasher with RandomState's Default, a
\* builder of randomly drawn keys.
new(keys, vals) ==
    \E b \in Builders : with_hasher(keys, vals, b)

\* The outcome of a call that panicked: nothing was returned or modified.
Panicked(op, args) ==
    /\ Record(Call(op, args, <<>>, "panic", FALSE, <<>>))
    /\ UNCHANGED <<live, shape, buckets, builder, present>>

\* bucket_mut with the two dimensions exchanged.
bucket_mut_swapped(key, val) ==
    LET key_hash == hash(builder, key)
        val_hash == hash(builder, val)
        dims == shape
    IN  IF dims[1] = 0 \/ dims[2] = 0
        THEN [ok |-> FALSE, ind |-> <<>>]
        ELSE LET key_ind == AsUsize(key_hash) % dims[2]
                 val_ind == AsUsize(val_hash) % dims[1]
             IN  [ok |-> <<key_ind, val_ind>> \in DOMAIN buckets,
                  ind |-> <<key_ind, val_ind>>]

\* bucket_mut indexing with the digests themselves, not reduced.
bucket_mut_unreduced(key, val) ==
    LET key_hash == hash(builder, key)
        val_hash == hash(builder, val)
        dims == shape
    IN  IF dims[1] = 0 \/ dims[2] = 0
        THEN [ok |-> FALSE, ind |-> <<>>]
        ELSE LET key_ind == AsUsize(key_hash)
                 val_ind == AsUsize(val_hash)
             IN  [ok |-> <<key_ind, val_ind>> \in DOMAIN buckets,
                  ind |-> <<key_ind, val_ind>>]

\* fn bucket_mut(&mut self, key, val): the index of the bucket that should
\* hold the pair.  `%` panics on a zero divisor and indexing panics on an
\* index outside the array.
bucket_mut(key, val) ==
    LET key_hash == hash(builder, key)
        val_hash == hash(builder, val)
        dims == shape
    IN  IF dims[1] = 0 \/ dims[2] = 0
        THEN [ok |-> FALSE, ind |-> <<>>]
        ELSE LET key_ind == AsUsize(key_hash) % dims[1]
                 val_ind == AsUsize(val_hash) % dims[2]
             IN  [ok |-> <<key_ind, val_ind>> \in DOMAIN buckets,
                  ind |-> <<key_ind, val_ind>>]

\* insert returning whether the pair was present.
insert_returns_present(key, val) ==
    /\ live
    /\ Cardinality(present) < MaxSize \/ <<key, val>> \in present
    /\ LET b == bucket_mut(key, val)
       IN  IF b.ok
           THEN /\ buckets' = [buckets EXCEPT ![b.ind] = @ \cup {<<key, val>>}]
                /\ present' = present \cup {<<key, val>>}
                /\ Record(Call("insert", <<key, val>>, b.ind, "ok",
                               <<key, val>> \in buckets[b.ind], <<>>))
                /\ UNCHANGED <<live, shape, builder>>
           ELSE Panicked("insert", <<key, val>>)

\* pub fn insert(&mut self, key, val) -> bool: HashSet::insert on the bucket.
insert(key, val) ==
    /\ live
    /\ Cardinality(present) < MaxSize \/ <<key, val>> \in present
    /\ LET b == bucket_mut(key, val)
       IN  IF b.ok
           THEN /\ buckets' = [buckets EXCEPT ![b.ind] = @ \cup {<<key, val>>}]
                /\ present' = present \cup {<<key, val>>}
                /\ Record(Call("insert", <<key, val>>, b.ind, "ok",
                               <<key, val>> \notin buckets[b.ind], <<>>))
                /\ UNCHANGED <<live, shape, builder>>
           ELSE Panicked("insert", <<key, val>>)

\* remove calling HashSet::contains: the entry stays in its bucket.
remove_contains(entry) ==
    /\ live
    /\ LET b == bucket_mut(entry[1], entry[2])
       IN  IF b.ok
           THEN /\ buckets' = buckets
                /\ present' = present \ {entry}
                /\ Record(Call("remove", entry, b.ind, "ok",
                               entry \in buckets[b.ind], <<>>))
                /\ UNCHANGED <<live, shape, builder>>
           ELSE Panicked("remove", entry)

\* remove emptying the whole bucket of the entry.
remove_clear(entry) ==
    /\ live
    /\ LET b == bucket_mut(entry[1], entry[2])
       IN  IF b.ok
           THEN /\ buckets' = [buckets EXCEPT ![b.ind] = {}]
                /\ present' = present \ {entry}
                /\ Record(Call("remove", entry, b.ind, "ok",
                               entry \in buckets[b.ind], <<>>))
                /\ UNCHANGED <<live, shape, builder>>
           ELSE Panicked("remove", entry)

\* pub fn remove(&mut self, entry) -> bool: HashSet::remove on the bucket.
remove(entry) ==
    /\ live
    /\ LET b == bucket_mut(entry[1], entry[2])
       IN  IF b.ok
           THEN /\ buckets' = [buckets EXCEPT ![b.ind] = @ \ {entry}]
                /\ present' = present \ {entry}
                /\ Record(Call("remove", entry, b.ind, "ok",
                               entry \in buckets[b.ind], <<>>))
                /\ UNCHANGED <<live, shape, builder>>
           ELSE Panicked("remove", entry)

\* HashSet::iter: the elements of a set once each, in an unspecified order.
HashSetIter(set) ==
    {s \in [1..Cardinality(set) -> set] :
        \A i, j \in 1..Cardinality(set) : i # j => s[i] # s[j]}

\* self.buckets.subview(Axis(axis), ind): the indices of the buckets of row
\* ind (axis 0) or column ind (axis 1), in the order of the array.
subview(axis, ind) ==
    IF axis = 0
    THEN [c \in 1..shape[2] |-> <<ind, c - 1>>]
    ELSE [r \in 1..shape[1] |-> <<r - 1, ind>>]

\* key_iter's closure without the comparison of the key.
KeyFilterMap_unfiltered(s, key) ==
    [i \in 1..Len(s) |-> s[i][2]]

\* filter_map(|(k, v)| if k == key { Some(v) } else { None })
KeyFilterMap(s, key) ==
    LET kept == SelectSeq(s, LAMBDA e : e[1] = key)
    IN  [i \in 1..Len(kept) |-> kept[i][2]]

\* val_iter's closure comparing the key, as key_iter's does.
ValFilterMap_by_key(s, val) ==
    LET kept == SelectSeq(s, LAMBDA e : e[1] = val)
    IN  [i \in 1..Len(kept) |-> kept[i][1]]

\* filter_map(|(k, v)| if v == val { Some(k) } else { None })
ValFilterMap(s, val) ==
    LET kept == SelectSeq(s, LAMBDA e : e[2] = val)
    IN  [i \in 1..Len(kept) |-> kept[i][1]]

\* key_buckets.into_iter().flat_map(..): the sequences key_iter can yield.
RECURSIVE KeyFlatMap(_, _)
KeyFlatMap(view, key) ==
    IF view = <<>>
    THEN {<<>>}
    ELSE {KeyFilterMap(s, key) \o rest :
            s \in HashSetIter(buckets[Head(view)]),
            rest \in KeyFlatMap(Tail(view), key)}

\* val_buckets.into_iter().flat_map(..): the sequences val_iter can yield.
RECURSIVE ValFlatMap(_, _)
ValFlatMap(view, val) ==
    IF view = <<>>
    THEN {<<>>}
    ELSE {ValFilterMap(s, val) \o rest :
            s \in HashSetIter(buckets[Head(view)]),
            rest \in ValFlatMap(Tail(view), val)}

\* self.buckets.iter().flat_map(HashSet::iter): the sequences iter can yield.
RECURSIVE IterFlatMap(_)
IterFlatMap(view) ==
    IF view = <<>>
    THEN {<<>>}
    ELSE {s \o rest :
            s \in HashSetIter(buckets[Head(view)]),
            rest \in IterFlatMap(Tail(view))}

\* The row-major order stopping one row short.
RowMajor_short ==
    [n \in 1..((shape[1] - 1) * shape[2]) |->
        <<(n - 1) \div shape[2], (n - 1) % shape[2]>>]

\* Array2::iter: every index of the array in row-major order.
RowMajor ==
    [n \in 1..(shape[1] * shape[2]) |->
        <<(n - 1) \div shape[2], (n - 1) % shape[2]>>]

\* pub fn key_iter(&self, key): the iterator is consumed to its end.
key_iter(key) ==
    /\ live
    /\ LET key_hash == hash(builder, key)
           dims == shape
       IN  IF dims[1] = 0
           THEN Panicked("key_iter", <<key>>)
           ELSE LET key_ind == AsUsize(key_hash) % dims[1]
                IN  IF key_ind >= shape[1]
                    THEN Panicked("key_iter", <<key>>)
                    ELSE \E y \in KeyFlatMap(subview(0, key_ind), key) :
                            /\ Record(Call("key_iter", <<key>>, <<key_ind>>,
                                           "ok", FALSE, y))
                            /\ UNCHANGED <<live, shape, buckets, builder, present>>

\* pub fn val_iter(&self, val): the iterator is consumed to its end.
val_iter(val) ==
    /\ live
    /\ LET val_hash == hash(builder, val)
           dims == shape
       IN  IF dims[2] = 0
           THEN Panicked("val_iter", <<val>>)
           ELSE LET val_ind == AsUsize(val_hash) % dims[2]
                IN  IF val_ind >= shape[2]
                    THEN Panicked("val_iter", <<val>>)
                    ELSE \E y \in ValFlatMap(subview(1, val_ind), val) :
                            /\ Record(Call("val_iter", <<val>>, <<val_ind>>,
                                           "ok", FALSE, y))
                            /\ UNCHANGED <<live, shape, buckets, builder, present>>

\* pub fn iter(&self): the iterator is consumed to its end.
iter ==
    /\ live
    /\ \E y \in IterFlatMap(RowMajor) :
          /\ Record(Call("iter", <<>>, <<>>, "ok", FALSE, y))
          /\ UNCHANGED <<live, shape, buckets, builder, present>>

Next ==
    \/ \E keys \in Dims, vals \in Dims, b \in Builders : with_hasher(keys, vals, b)
    \/ \E keys \in Dims, vals \in Dims : new(keys, vals)
    \/ \E key \in Ids, val \in Ids : insert(key, val)
    \/ \E entry \in Relation : remove(entry)
    \/ \E key \in Ids : key_iter(key)
    \/ \E val \in Ids : val_iter(val)
    \/ iter

Spec == Init /\ [][Next]_vars

----
\* Vocabulary of the properties.

\* The union of all buckets of a grid.
Relations(grid) == UNION {grid[i] : i \in DOMAIN grid}
Range(s) == {s[i] : i \in DOMAIN s}
NoDuplicate(s) == \A i, j \in DOMAIN s : i # j => s[i] # s[j]
Returned(op) == last.op = op /\ last.outcome = "ok"
\* (hash(k) mod rows, hash(v) mod cols), for rows, cols >= 1.
Coordinate(e) == <<hash(builder, e[1]) % shape[1], hash(builder, e[2]) % shape[2]>>
ValuesOf(key) == {v \in Ids : <<key, v>> \in present}
KeysOf(val) == {k \in Ids : <<k, val>> \in present}
\* last is remove(&(k, v)) and the call before it was insert(k, v); both returned.
RoundTrip ==
    /\ Returned("remove")
    /\ prev.op = "insert" /\ prev.outcome = "ok" /\ prev.args = last.args
\* last is insert(k, v) and so was the call before it, on a map without (k, v).
InsertTwice ==
    /\ last.op = "insert"
    /\ prev.op = "insert" /\ prev.args = last.args
    /\ prev.args \notin prev.before.present
    /\ prev.outcome = "ok" /\ last.outcome = "ok"

\* C1: new(rows, cols) and with_hasher(rows, cols, provider) fail with
\* InvalidCapacity whenever rows = 0 or cols = 0 and produce no container;
\* with rows >= 1 and cols >= 1 they succeed and yield an empty container.
C1_ConstructionValidates ==
    last.op = "with_hasher" =>
        IF last.args[1] = 0 \/ last.args[2] = 0
        THEN last.outcome = "InvalidCapacity" /\ ~live
        ELSE last.outcome = "ok" /\ live /\ Relations(buckets) = {}

\* C2 as stated: insert(k, v) followed by remove(&(k, v)) returns (true, true)
\* and leaves the set of relations as it was before the two calls, in every
\* state, also one that already holds (k, v).
C2_RoundTripAlways ==
    RoundTrip =>
        /\ prev.ret /\ last.ret
        /\ Relations(buckets) = Relations(prev.before.buckets)

\* C2 amended: insert(k, v) followed by remove(&(k, v)) returns (true, true)
\* and leaves the set of relations as it was when (k, v) was absent before
\* the two calls; when (k, v) was present it returns (false, true) and leaves
\* the set without (k, v).
C2_RoundTripAmended ==
    RoundTrip =>
        IF last.args \in prev.before.present
        THEN /\ ~prev.ret /\ last.ret
             /\ Relations(buckets) = Relations(prev.before.buckets) \ {last.args}
             /\ present = prev.before.present \ {last.args}
        ELSE /\ prev.ret /\ last.ret
             /\ Relations(buckets) = Relations(prev.before.buckets)
             /\ present = prev.before.present

\* A round trip of an absent pair on a map that holds another relation.
C2_Witness ==
    /\ RoundTrip /\ prev.ret /\ last.ret
    /\ last.args \notin prev.before.present
    /\ present # {}

\* C3: insert(k, v) returns true exactly when (k, v) was not in the container
\* before the call; two inserts of (k, v) in a row on a container without
\* (k, v) return true then false, add exactly one relation, and the second
\* changes nothing.
C3_InsertIdempotent ==
    /\ Returned("insert") => (last.ret <=> last.args \notin last.before.present)
    /\ InsertTwice =>
        /\ prev.ret /\ ~last.ret
        /\ Cardinality(Relations(buckets))
             = Cardinality(Relations(prev.before.buckets)) + 1
        /\ Cardinality(present) = Cardinality(prev.before.present) + 1
        /\ buckets = last.before.buckets

\* The second of two inserts of the same pair has returned false.
C3_Witness ==
    /\ InsertTwice /\ prev.ret /\ ~last.ret
    /\ Cardinality(present) = 2

\* C4: remove(&(k, v)) returns true iff (k, v) was in the container before
\* the call, and afterwards (k, v) is absent; removing an absent relation
\* returns false, raises no error and leaves the set of relations unchanged.
C4_RemoveNeverFails ==
    last.op = "remove" =>
        /\ last.outcome = "ok"
        /\ last.ret <=> last.args \in last.before.present
        /\ last.args \notin present
        /\ last.args \notin Relations(buckets)
        /\ last.args \notin last.before.present =>
              /\ ~last.ret
              /\ Relations(buckets) = Relations(last.before.buckets)

\* C5: key_iter(k) yields exactly the values v with (k, v) in the container,
\* each once, and no value of a relation with another key, also when that key
\* hashes to the row or the bucket of k.
C5_KeyIterExact ==
    Returned("key_iter") =>
        /\ Range(last.yielded) = ValuesOf(last.args[1])
        /\ NoDuplicate(last.yielded)

\* key_iter(k) has yielded a value while another key's relation lay in the
\* bucket of one of k's relations.
C5_Witness ==
    /\ Returned("key_iter")
    /\ last.yielded # <<>>
    /\ \E e \in present, f \in present :
          /\ e[1] = last.args[1] /\ f[1] # last.args[1]
          /\ Coordinate(e) = Coordinate(f)
          /\ f[2] \notin Range(last.yielded)

\* C6: val_iter(v) yields exactly the keys k with (k, v) in the container,
\* each once, and no key of a relation with another value, also when that
\* value hashes to the column or the bucket of v.
C6_ValIterExact ==
    Returned("val_iter") =>
        /\ Range(last.yielded) = KeysOf(last.args[1])
        /\ NoDuplicate(last.yielded)

\* val_iter(v) has yielded a key while another value's relation lay in the
\* bucket of one of v's relations.
C6_Witness ==
    /\ Returned("val_iter")
    /\ last.yielded # <<>>
    /\ \E e \in present, f \in present :
          /\ e[2] = last.args[1] /\ f[2] # last.args[1]
          /\ Coordinate(e) = Coordinate(f)
          /\ f[1] \notin Range(last.yielded)

\* C7: iter() yields each relation of the container exactly once and nothing
\* else: the yielded set is the relations inserted and not removed since, and
\* the yielded count is their number, for every shape and hash function.
C7_IterComplete ==
    /\ Relations(buckets) = present
    /\ last.op = "iter" =>
        /\ last.outcome = "ok"
        /\ Range(last.yielded) = present
        /\ NoDuplicate(last.yielded)
        /\ Len(last.yielded) = Cardinality(present)

\* iter() has yielded two relations of a 2 x 2 map whose hash function sends
\* every key and value to one digest.
C7_Witness ==
    /\ Returned("iter")
    /\ Len(last.yielded) = 2
    /\ builder.mult = 0
    /\ shape = <<2, 2>>

\* C8: every stored relation (k, v) lies in the bucket at
\* (hash(k) mod rows, hash(v) mod cols) and in no other bucket.
C8_Placement ==
    /\ \A i \in DOMAIN buckets : \A e \in buckets[i] : i = Coordinate(e)
    /\ \A e \in present : e \in buckets[Coordinate(e)]
    /\ \A i, j \in DOMAIN buckets : i # j => buckets[i] \cap buckets[j] = {}

\* Two relations are stored in two buckets of a 2 x 2 grid.
C8_Witness ==
    /\ shape = <<2, 2>>
    /\ \E i, j \in DOMAIN buckets : i # j /\ buckets[i] # {} /\ buckets[j] # {}

\* C9: on a container built with rows >= 1 and cols >= 1 every insert, remove,
\* key_iter and val_iter computes a row index in [0, rows) and a column index
\* in [0, cols) and does not fail; a (1, 1) container holds all relations in
\* its single bucket and the operations return correct results.
C9_DimensionsAreNoLimit ==
    (live /\ shape[1] >= 1 /\ shape[2] >= 1) =>
        /\ last.op \in {"insert", "remove"} =>
              /\ last.outcome = "ok"
              /\ last.ind[1] \in 0..(shape[1] - 1)
              /\ last.ind[2] \in 0..(shape[2] - 1)
        /\ last.op = "key_iter" =>
              last.outcome = "ok" /\ last.ind[1] \in 0..(shape[1] - 1)
        /\ last.op = "val_iter" =>
              last.outcome = "ok" /\ last.ind[1] \in 0..(shape[2] - 1)
        /\ shape = <<1, 1>> =>
              /\ buckets[<<0, 0>>] = present
              /\ last.op = "insert" =>
                    (last.ret <=> last.args \notin last.before.present)
              /\ last.op = "remove" =>
                    (last.ret <=> last.args \in last.before.present)
              /\ last.op = "key_iter" =>
                    /\ Range(last.yielded) = ValuesOf(last.args[1])
                    /\ NoDuplicate(last.yielded)
              /\ last.op = "val_iter" =>
                    /\ Range(last.yielded) = KeysOf(last.args[1])
                    /\ NoDuplicate(last.yielded)

\* A (1, 1) container holds relations of two keys and key_iter has answered.
C9_Witness ==
    /\ shape = <<1, 1>>
    /\ Cardinality({e[1] : e \in buckets[<<0, 0>>]}) > shape[1]
    /\ Returned("key_iter") /\ last.yielded # <<>>

\* C10: insert and remove leave the shape and every bucket other than the one
\* at the coordinate of (k, v) unchanged; a duplicate insert and a remove of an
\* absent relation leave the grid unchanged; key_iter, val_iter and iter leave
\* the grid unchanged.
C10_Frame ==
    last.op \in {"insert", "remove", "key_iter", "val_iter", "iter"} =>
        /\ shape = last.before.shape
        /\ DOMAIN buckets = DOMAIN last.before.buckets
        /\ (last.op \in {"insert", "remove"} /\ shape[1] >= 1 /\ shape[2] >= 1) =>
              \A i \in DOMAIN buckets :
                 i # Coordinate(last.args) => buckets[i] = last.before.buckets[i]
        /\ (last.op = "insert" /\ last.args \in last.before.present) =>
              buckets = last.before.buckets
        /\ (last.op = "remove" /\ last.args \notin last.before.present) =>
              buckets = last.before.buckets
        /\ last.op \in {"key_iter", "val_iter", "iter"} =>
              buckets = last.before.buckets

\* remove of an absent relation has returned on a grid whose bucket at its
\* coordinate holds another relation.
C10_Witness ==
    /\ Returned("remove") /\ ~last.ret
    /\ buckets[Coordinate(last.args)] # {}
====
